---- MODULE Spec2Model ----
(***************************************************************************)
(* The HTTPS demo server of go-rest: main of the TLS server with request   *)
(* logging (src/unnamed/part_003) and of the same server without logging   *)
(* (src/simple-api/server.go), run against net/http's DefaultServeMux and  *)
(* crypto/tls as the code configures them; the server without TLS of      *)
(* src/demo/http-client.md; and the JSON program of                        *)
(* src/unnamed/part_000, main with its calls of encoding/json.             *)
(*                                                                         *)
(* Strings are ASCII here: the emoji that open the program's messages and  *)
(* close the handler bodies are written as the tokens [ok], [green],       *)
(* [tick] and [warn].                                                      *)
(*                                                                         *)
(* A request path is the sequence of its segments: "/orders" is            *)
(* <<"orders">>, "//orders" is <<"", "orders">>, "/orders/" is             *)
(* <<"orders", "">>, "/" is << >>.                                         *)
(***************************************************************************)
EXTENDS Integers, Sequences, FiniteSets, TLC

VARIABLES
  variant,    \* which main runs: "part_003" (handlers log), "server_go",
              \* or "http_client_md" (the server without TLS)
  script,     \* the http.HandleFunc calls of main, in program order
  minTLSVersion, \* the MinVersion main writes in its tls.Config
  certOK,     \* environment: cert.pem and key.pem exist and parse
  portFree,   \* environment: the port can be bound
  pc,         \* position of main
  regIdx,     \* next HandleFunc call of the script
  mux,        \* http.DefaultServeMux: pattern -> handler (its body)
  tlsConfig,  \* the tls.Config main builds (NoConfig before)
  server,     \* the http.Server main builds (NoServer before)
  listener,   \* the listening socket: "none", "open", "closed"
  cert,       \* the loaded key pair: "none", "loaded"
  err,        \* the error ListenAndServeTLS returns ("nil" while it runs)
  exitCode,   \* << >> while the process runs, then <<its exit code>>
  stdout,     \* lines printed with fmt.Println
  stderr,     \* lines printed by log.Fatal and by the runtime on panic
  errorLog,   \* lines net/http prints to the server's ErrorLog
  sink,       \* environment: what a write to standard output meets
  json,       \* the JSON program (src/unnamed/part_000): its main's locals
  conns,      \* accepted connections
  reqs,       \* requests read from established connections
  steps       \* history: the startup steps in the order they were executed

vars == <<json, variant, script, minTLSVersion, certOK, portFree, pc, regIdx, mux, tlsConfig, server,
          listener, cert, err, exitCode, stdout, stderr, errorLog, sink, conns,
          reqs, steps>>

----------------------------------------------------------------------------
(* Bounds of the model *)

MaxReqs == 2

ReqIds == 1..MaxReqs

----------------------------------------------------------------------------
(* Program constants *)

PORT == 3000

\* crypto/tls version codes (tls.VersionTLS10 .. tls.VersionTLS13)
VersionTLS10 == 769
VersionTLS11 == 770
VersionTLS12 == 771
VersionTLS13 == 772

OrdersBody == "Handling incoming orders..[ok]"
UsersBody == "Handling users..[ok]"

OrdersPath == <<"orders">>
UsersPath == <<"users">>

Running == << >>
NoConfig == [MinVersion |-> 0, NextProtos |-> {}, built |-> FALSE]
NoServer == [Addr |-> "", Handler |-> "", built |-> FALSE]

\* The two registrations of main.
ShippedScript ==
  << [pattern |-> OrdersPath, body |-> OrdersBody],
     [pattern |-> UsersPath, body |-> UsersBody] >>

Variants == {"part_003", "server_go"}

----------------------------------------------------------------------------
(* Inputs of the environment *)

\* Request paths: "/orders", "/users", "/nope", "/orders/" and "//orders".
Paths ==
  { OrdersPath, UsersPath, <<"nope">>, <<"orders", "">>, <<"", "orders">> }

\* CONNECT carries no path and is left out.
Methods == {"GET", "POST"}

\* The TLS versions a client may offer in its ClientHello.
TLSVersions == {VersionTLS10, VersionTLS11, VersionTLS12, VersionTLS13}

\* The clients that connect, each at most once, and what each sends in its
\* ClientHello: the versions it offers and whether it offers "h2". A client
\* of the old versions only, a client forced to TLS 1.2 and HTTP/1.1, and a
\* client offering every version and HTTP/2.
ConnIds == {"legacy", "forced12", "modern"}

ClientHello(c) ==
  CASE c = "legacy" -> [offer |-> {VersionTLS10, VersionTLS11}, h2 |-> FALSE]
    [] c = "forced12" -> [offer |-> {VersionTLS12}, h2 |-> FALSE]
    [] c = "modern" -> [offer |-> TLSVersions, h2 |-> TRUE]

----------------------------------------------------------------------------
(* Helpers *)

Max(S) == CHOOSE x \in S : \A y \in S : y <= x

Last(s) == s[Len(s)]

Front(s) == SubSeq(s, 1, Len(s) - 1)

\* fmt.Println(a, b): operands separated by a space.
Println2(a, b) == a \o " " \o b

----------------------------------------------------------------------------
(* net/http: the request multiplexer *)

\* path.Clean on the segments: empty and "." segments are dropped, ".." drops
\* the segment before it (and is dropped itself at the root).
RECURSIVE pathClean(_, _)
pathClean(segs, stack) ==
  IF segs = << >> THEN stack
  ELSE LET s == Head(segs) IN
       IF s = "" \/ s = "." THEN pathClean(Tail(segs), stack)
       ELSE IF s = ".." THEN
         pathClean(Tail(segs), IF stack = << >> THEN stack ELSE Front(stack))
       ELSE pathClean(Tail(segs), Append(stack, s))

\* cleanPath of net/http: path.Clean, with the trailing slash put back.
cleanPath(p) ==
  LET np == pathClean(p, << >>) IN
    IF p # << >> /\ Last(p) = "" /\ np # << >> THEN Append(np, "") ELSE np

\* The path as text: "/" followed by the segments joined with "/".
RECURSIVE joinSegs(_)
joinSegs(segs) ==
  IF segs = << >> THEN ""
  ELSE IF Len(segs) = 1 THEN segs[1]
  ELSE segs[1] \o "/" \o joinSegs(Tail(segs))

PathString(p) == "/" \o joinSegs(p)

\* Mutant: a registration is never refused.
muxConflictNever(m, pattern) == FALSE

\* ServeMux.Handle refuses a pattern that is already registered.
muxConflict(m, pattern) == pattern \in DOMAIN m

\* Mutant: every pattern ends up with the handler registered last.
muxHandleAll(m, pattern, handler) ==
  [q \in DOMAIN m \cup {pattern} |-> handler]

\* ServeMux.Handle: the table with the pattern added.
muxHandle(m, pattern, handler) ==
  [q \in DOMAIN m \cup {pattern} |-> IF q = pattern THEN handler ELSE m[q]]

\* Mutant: the cleaned path is looked up and served instead of redirected to.
muxHandlerCleaned(m, p) ==
  IF cleanPath(p) \in DOMAIN m
  THEN [kind |-> "handler", body |-> m[cleanPath(p)]]
  ELSE [kind |-> "notfound"]

\* ServeMux.Handler: what answers a request for path p. The patterns main
\* registers end in no slash and name no host, so a pattern matches the
\* paths equal to it and nothing else.
muxHandler(m, p) ==
  IF cleanPath(p) # p THEN [kind |-> "redirect", to |-> cleanPath(p)]
  ELSE IF p \in DOMAIN m THEN [kind |-> "handler", body |-> m[p]]
  ELSE [kind |-> "notfound"]

\* http.RedirectHandler(url, 301): GET gets a short HTML body.
RedirectBody(method, to) ==
  IF method = "GET"
  THEN "<a href=\"" \o PathString(to) \o "\">Moved Permanently</a>.\n\n"
  ELSE ""

\* http.NotFound
NotFoundBody == "404 page not found\n"

StatusOK == 200
StatusMovedPermanently == 301
StatusNotFound == 404

----------------------------------------------------------------------------
(* crypto/tls: version negotiation *)

\* Mutant: MinVersion is not applied.
serverVersionsAny(config) == TLSVersions

\* The versions the server accepts under a config: the ones crypto/tls
\* implements that are not below config.MinVersion.
serverVersions(config) == {v \in TLSVersions : v >= config.MinVersion}

\* Mutant: the client's highest version is taken, whatever the server
\* accepts.
mutualVersionOfClient(config, offer) == Max(offer)

\* The version both peers agree on: the highest one the client offers and the
\* server accepts; 0 when there is none (the handshake fails).
mutualVersion(config, offer) ==
  LET common == offer \cap serverVersions(config) IN
    IF common = {} THEN 0 ELSE Max(common)

\* ALPN: HTTP/2 when the client offers it and the server's config lists it.
negotiatedProto(config, clientH2) ==
  IF clientH2 /\ "h2" \in config.NextProtos THEN "HTTP/2.0" ELSE "HTTP/1.1"

----------------------------------------------------------------------------
(* part_003: logRequestDetails and getTLSVersionName *)

\* Mutant: the names of TLS 1.2 and TLS 1.3 are attached to the wrong cases.
getTLSVersionNameShifted(version) ==
  CASE version = VersionTLS10 -> "TLS 1.0"
    [] version = VersionTLS11 -> "TLS 1.1"
    [] version = VersionTLS12 -> "TLS 1.3"
    [] version = VersionTLS13 -> "TLS 1.2"
    [] OTHER -> "Unknown TLS version!"

\* Mutant: the switch has no default case, the zero string is returned.
getTLSVersionNameNoDefault(version) ==
  CASE version = VersionTLS10 -> "TLS 1.0"
    [] version = VersionTLS11 -> "TLS 1.1"
    [] version = VersionTLS12 -> "TLS 1.2"
    [] version = VersionTLS13 -> "TLS 1.3"
    [] OTHER -> ""

getTLSVersionName(version) ==
  CASE version = VersionTLS10 -> "TLS 1.0"
    [] version = VersionTLS11 -> "TLS 1.1"
    [] version = VersionTLS12 -> "TLS 1.2"
    [] version = VersionTLS13 -> "TLS 1.3"
    [] OTHER -> "Unknown TLS version!"

\* Mutant: the line names the protocol negotiated for the connection, not
\* the request's own.
httpVersionLineNegotiated(r, proto) ==
  [kind |-> "http", req |-> r,
   text |-> Println2("[tick] Received request with HTTP version:",
                     conns[reqs[r].conn].proto)]

\* The first line logRequestDetails prints.
httpVersionLine(r, proto) ==
  [kind |-> "http", req |-> r,
   text |-> Println2("[tick] Received request with HTTP version:", proto)]

\* Mutant: r.TLS is not tested, the version line is printed always.
tlsStatusLineUntested(r, hasTLS, version) ==
  [kind |-> "tls", req |-> r,
   text |-> "[tick] Received request with TLS version: Unknown TLS version!"]

\* The second line: the TLS version when r.TLS is set, the notice otherwise.
tlsStatusLine(r, hasTLS, version) ==
  IF hasTLS
  THEN [kind |-> "tls", req |-> r,
        text |-> Println2("[tick] Received request with TLS version:",
                          getTLSVersionName(version))]
  ELSE [kind |-> "notls", req |-> r,
        text |-> "[tick] Received request without TLS"]

\* Mutant: the handlers format into one buffer they share, a handler
\* running at the same time leaves its text in it.
handlerWriteShared(resp, body) ==
  LET others == {q \in DOMAIN reqs :
                   /\ reqs[q].state \in {"logHTTP", "logTLS", "write"}
                   /\ reqs[q].handler # body} IN
    [status |-> IF resp.status = 0 THEN StatusOK ELSE resp.status,
     body |-> IF others = {} THEN resp.body \o body
              ELSE resp.body \o body
                     \o reqs[CHOOSE q \in others : TRUE].handler]

\* Mutant: the handler appends the number of requests answered so far.
handlerWriteCounting(resp, body) ==
  [status |-> IF resp.status = 0 THEN StatusOK ELSE resp.status,
   body |-> resp.body \o body
              \o ToString(Cardinality({q \in DOMAIN reqs :
                                         reqs[q].state = "done"}))]

\* logRequestDetails(r): the two lines it prints, in order, for request r of
\* a connection with the given protocol and TLS state.
logRequestDetails(r, proto, hasTLS, version) ==
  << httpVersionLine(r, proto), tlsStatusLine(r, hasTLS, version) >>

\* fmt.Fprintf(w, body) in a handler: the status defaults to 200 on the
\* first write, the bytes are appended to what was written.
handlerWrite(resp, body) ==
  [status |-> IF resp.status = 0 THEN StatusOK ELSE resp.status,
   body |-> resp.body \o body]

----------------------------------------------------------------------------
(* part_000: encoding/json on the User struct *)

\* A Go string is a sequence of units: "a" is any run of plain text, "\"",
\* "\\" and "<" are those characters, "xFF" is a byte that is not valid
\* UTF-8, and "uFFFD" is the character U+FFFD. JSON text is a sequence of
\* characters, "NL" the newline.
MaxStrLen == 2

Units == {"a", "\"", "\\", "<", "xFF"}

RECURSIVE StringsUpTo(_)
StringsUpTo(n) ==
  IF n = 0 THEN {<< >>}
  ELSE LET shorter == StringsUpTo(n - 1) IN
         shorter \cup {Append(s, u) : s \in shorter, u \in Units}

\* user := User{Name: "Skyy", Email: "skyy@email.com"}
ShippedUser == [Name |-> <<"Skyy">>, Email |-> <<"skyy@email.com">>]

\* jsonData1 := `{"name":"Soumadip","email":"soumadip@email.com"}`
ShippedText ==
  <<"{", "\"", "n", "a", "m", "e", "\"", ":", "\"", "Soumadip", "\"", ",",
    "\"", "e", "m", "a", "i", "l", "\"", ":", "\"", "soumadip@email.com",
    "\"", "}">>

ZeroUser == [Name |-> << >>, Email |-> << >>]

Users ==
  {ShippedUser} \cup
  {[Name |-> n, Email |-> e] : n \in StringsUpTo(MaxStrLen),
                               e \in StringsUpTo(MaxStrLen)}

\* Mutant: the quote is written as it is.
escapeUnitBare(u) ==
  CASE u = "\\" -> <<"\\", "\\">>
    [] u = "<" -> <<"\\", "u", "0", "0", "3", "c">>
    [] u = "xFF" -> <<"\\", "u", "f", "f", "f", "d">>
    [] OTHER -> <<u>>

\* encoding/json, string encoding with HTML escaping on (the default of
\* Marshal and of Encoder): quote and backslash get a backslash, "<" is
\* written \u003c, a byte that is not valid UTF-8 is written \ufffd.
escapeUnit(u) ==
  CASE u = "\"" -> <<"\\", "\"">>
    [] u = "\\" -> <<"\\", "\\">>
    [] u = "<" -> <<"\\", "u", "0", "0", "3", "c">>
    [] u = "xFF" -> <<"\\", "u", "f", "f", "f", "d">>
    [] OTHER -> <<u>>

RECURSIVE escapeUnits(_)
escapeUnits(s) ==
  IF s = << >> THEN << >> ELSE escapeUnit(Head(s)) \o escapeUnits(Tail(s))

marshalString(s) == <<"\"">> \o escapeUnits(s) \o <<"\"">>

\* The keys of the struct tags `json:"name"` and `json:"email"`.
NameKey == <<"n", "a", "m", "e">>
EmailKey == <<"e", "m", "a", "i", "l">>

\* json.Marshal(user): the fields in declaration order under their tags.
marshal(u) ==
  <<"{">> \o marshalString(NameKey) \o <<":">> \o marshalString(u.Name)
    \o <<",">> \o marshalString(EmailKey) \o <<":">>
    \o marshalString(u.Email) \o <<"}">>

\* encoder.Encode(user): the same bytes and a newline.
encode(u) == marshal(u) \o <<"NL">>

NoParse == [ok |-> FALSE, val |-> << >>, next |-> 0]

\* The character a \uXXXX escape stands for.
unescapeHex(hex) ==
  CASE hex = <<"0", "0", "3", "c">> -> "<"
    [] hex = <<"f", "f", "f", "d">> -> "uFFFD"
    [] OTHER -> "?"

\* The scanner inside a string literal, from position i (after the opening
\* quote) to the closing quote: the string read and the position after it.
RECURSIVE unquote(_, _, _)
unquote(text, i, acc) ==
  IF i > Len(text) THEN NoParse
  ELSE IF text[i] = "\"" THEN [ok |-> TRUE, val |-> acc, next |-> i + 1]
  ELSE IF text[i] = "\\" THEN
    IF i + 1 > Len(text) THEN NoParse
    ELSE IF text[i + 1] \in {"\"", "\\"}
      THEN unquote(text, i + 2, Append(acc, text[i + 1]))
    ELSE IF text[i + 1] = "u" /\ i + 5 <= Len(text)
      THEN unquote(text, i + 6,
                   Append(acc, unescapeHex(SubSeq(text, i + 2, i + 5))))
    ELSE NoParse
  ELSE IF text[i] = "NL" THEN NoParse
  ELSE IF text[i] = "xFF" THEN unquote(text, i + 1, Append(acc, "uFFFD"))
  ELSE unquote(text, i + 1, Append(acc, text[i]))

stringAt(text, i) ==
  IF i <= Len(text) /\ text[i] = "\"" THEN unquote(text, i + 1, << >>)
  ELSE NoParse

\* The field a key names in User (keys of no field are skipped).
setField(u, key, val) ==
  IF key = NameKey THEN [u EXCEPT !.Name = val]
  ELSE IF key = EmailKey THEN [u EXCEPT !.Email = val]
  ELSE u

\* The members of an object from position i (a key) to the closing brace,
\* stored into u.
RECURSIVE membersAt(_, _, _)
membersAt(text, i, u) ==
  LET k == stringAt(text, i) IN
    IF ~k.ok \/ k.next > Len(text) \/ text[k.next] # ":" THEN NoParse
    ELSE LET v == stringAt(text, k.next + 1) IN
      IF ~v.ok \/ v.next > Len(text) THEN NoParse
      ELSE IF text[v.next] = ","
        THEN membersAt(text, v.next + 1, setField(u, k.val, v.val))
      ELSE IF text[v.next] = "}"
        THEN [ok |-> TRUE, val |-> setField(u, k.val, v.val),
              next |-> v.next + 1]
      ELSE NoParse

\* One JSON value (an object of string members) decoded into u.
objectAt(text, i, u) ==
  IF i > Len(text) \/ text[i] # "{" THEN NoParse
  ELSE IF i + 1 <= Len(text) /\ text[i + 1] = "}"
    THEN [ok |-> TRUE, val |-> u, next |-> i + 2]
  ELSE membersAt(text, i + 1, u)

\* json.Unmarshal(data, &u): data must be one value and white space.
unmarshal(text, u) ==
  LET p == objectAt(text, 1, u) IN
    IF ~p.ok THEN [err |-> "unexpected end of JSON input", val |-> u]
    ELSE IF \E j \in p.next..Len(text) : text[j] # "NL"
      THEN [err |-> "invalid character after top-level value", val |-> u]
    ELSE [err |-> "nil", val |-> p.val]

\* decoder.Decode(&u): the first value of the stream; what follows it stays
\* in the reader.
decode(text, u) ==
  LET p == objectAt(text, 1, u) IN
    IF p.ok THEN [err |-> "nil", val |-> p.val]
    ELSE [err |-> "unexpected EOF", val |-> u]

\* The locals of part_000's main before it runs, for the user and the text
\* it is given.
JSONStart(u, text) ==
  [pc |-> "marshal", user |-> u, jsonData |-> << >>, user1 |-> ZeroUser,
   jsonData1 |-> text, user2 |-> ZeroUser, buff |-> << >>, err |-> "nil",
   printed |-> << >>]

\* The JSON program is not run.
JSONIdle == [JSONStart(ZeroUser, << >>) EXCEPT !.pc = "off"]

----------------------------------------------------------------------------
(* Initial states *)

NoConn == [state |-> "none", offer |-> {}, tls |-> FALSE, version |-> 0,
           proto |-> ""]
NoReq == [state |-> "none", conn |-> "", path |-> << >>, method |-> "",
          proto |-> "", status |-> 0, body |-> "", routed |-> "",
          handler |-> ""]

\* The server's main at its entry.
ServerStart(scripts, minimums) ==
  /\ variant \in Variants
  /\ script \in scripts
  /\ minTLSVersion \in minimums
  /\ certOK \in BOOLEAN
  /\ portFree \in BOOLEAN
  /\ pc = "register"
  /\ regIdx = 1
  /\ mux = << >>
  /\ tlsConfig = NoConfig
  /\ server = NoServer
  /\ listener = "none"
  /\ cert = "none"
  /\ err = "nil"
  /\ exitCode = Running
  /\ stdout = << >>
  /\ stderr = << >>
  /\ errorLog = << >>
  /\ sink = "ok"
  /\ conns = [c \in ConnIds |-> NoConn]
  /\ reqs = [r \in ReqIds |-> NoReq]
  /\ steps = << >>

InitWith(scripts, minimums) ==
  ServerStart(scripts, minimums) /\ json = JSONIdle

Init == InitWith({ShippedScript}, {VersionTLS12})

----------------------------------------------------------------------------
(* main *)

\* What the server's main never writes: its own text and environment, the
\* locals of the repository's other program, and the error log of the
\* goroutines serving connections.
inputVars == <<variant, script, minTLSVersion, certOK, portFree, sink, json>>
envVars == <<inputVars, errorLog>>
netVars == <<conns, reqs>>

\* What main does after its registrations: it builds the tls.Config; the
\* main of http-client.md has none and goes on to print.
afterRegistrations(v) == IF v = "http_client_md" THEN "println" ELSE "tlsConfig"

\* http.HandleFunc(pattern, handler), lines 13-21: the next registration of
\* the script. DefaultServeMux panics on a pattern it already holds.
HandleFunc ==
  /\ pc = "register"
  /\ regIdx <= Len(script)
  /\ LET reg == script[regIdx] IN
       IF muxConflict(mux, reg.pattern)
       THEN /\ stderr' = Append(stderr,
                   "panic: http: multiple registrations for "
                     \o PathString(reg.pattern))
            /\ exitCode' = <<2>>
            /\ pc' = "exited"
            /\ UNCHANGED <<mux, regIdx, steps>>
       ELSE /\ mux' = muxHandle(mux, reg.pattern, reg.body)
            /\ regIdx' = regIdx + 1
            /\ steps' = Append(steps, "register")
            /\ pc' = IF regIdx = Len(script) THEN afterRegistrations(variant)
                     ELSE "register"
            /\ UNCHANGED <<stderr, exitCode>>
  /\ UNCHANGED <<envVars, netVars, tlsConfig, server, listener, cert, err,
                 stdout>>

\* Mutant: a minimum outside the versions crypto/tls knows is replaced by
\* the nearest one it knows.
newTLSConfigClamped(min) ==
  [MinVersion |-> IF min < VersionTLS10 THEN VersionTLS10
                  ELSE IF min > VersionTLS13 THEN VersionTLS13 ELSE min,
   NextProtos |-> {}, built |-> TRUE]

\* &tls.Config{MinVersion: min}: a struct literal, the value is stored as
\* it is written and nothing is validated.
newTLSConfig(min) == [MinVersion |-> min, NextProtos |-> {}, built |-> TRUE]

\* tlsConfig := &tls.Config{MinVersion: tls.VersionTLS12}
NewTLSConfig ==
  /\ pc = "tlsConfig"
  /\ tlsConfig' = newTLSConfig(minTLSVersion)
  /\ steps' = Append(steps, "policy")
  /\ pc' = "server"
  /\ UNCHANGED <<envVars, netVars, regIdx, mux, server, listener, cert, err,
                 exitCode, stdout, stderr>>

\* server := http.Server{Addr: ":3000", Handler: nil, TLSConfig: tlsConfig}
NewServer ==
  /\ pc = "server"
  /\ server' = [Addr |-> ":" \o ToString(PORT), Handler |-> "nil",
                built |-> TRUE]
  /\ pc' = "http2"
  /\ UNCHANGED <<envVars, netVars, regIdx, mux, tlsConfig, listener, cert, err,
                 exitCode, stdout, stderr, steps>>

\* http2.ConfigureServer(&server, &http2.Server{}): "h2" joins the protocols
\* the TLS config offers (ServeTLS adds "http/1.1").
ConfigureServer ==
  /\ pc = "http2"
  /\ tlsConfig' = [tlsConfig EXCEPT !.NextProtos = @ \cup {"h2", "http/1.1"}]
  /\ pc' = "println"
  /\ UNCHANGED <<envVars, netVars, regIdx, mux, server, listener, cert, err,
                 exitCode, stdout, stderr, steps>>

\* What a write to standard output can meet: it succeeds, it fails with an
\* error (EBADF, ENOSPC, EIO: the descriptor was closed, the disk is full),
\* or it fails with EPIPE (standard output is a pipe whose reader is gone).
Sinks == {"ok", "error", "brokenPipe"}

\* fmt.Println to os.Stdout, its (n, err) dropped as the program drops them:
\* the line reaches the sink only when the write succeeds.
println(out, s, line) == IF s = "ok" THEN Append(out, line) ELSE out

\* os.File.Write on standard output: EPIPE raises SIGPIPE, which the program
\* does not handle and which ends the process.
sigpipe(s) == s = "brokenPipe"

\* The status of a process ended by SIGPIPE (signal 13) as a shell reports it.
sigpipeExit == <<128 + 13>>

\* The process is ended by a signal: no deferred call and no handler runs
\* any further, every connection is closed.
Killed ==
  /\ pc' = "exited"
  /\ exitCode' = sigpipeExit
  /\ conns' = [c \in ConnIds |-> NoConn]
  /\ reqs' = [r \in ReqIds |-> NoReq]
  /\ UNCHANGED <<regIdx, mux, tlsConfig, server, listener, cert, err, stdout,
                 stderr, steps>>

\* fmt.Println("Server is running on PORT:", PORT)
PrintRunning ==
  /\ pc = "println"
  /\ IF sigpipe(sink)
     THEN Killed
     ELSE /\ stdout' = println(stdout, sink,
                 [kind |-> "running", req |-> 0,
                  text |-> Println2("[green] Server is running on PORT:",
                                    ToString(PORT))])
          /\ pc' = "listen"
          /\ UNCHANGED <<netVars, regIdx, mux, tlsConfig, server, listener,
                         cert, err, exitCode, stderr, steps>>
  /\ UNCHANGED envVars

\* Mutant: the error of the bind is dropped.
netListenLenient(free) == "nil"

\* net.Listen("tcp", addr): the error, "nil" when the port was bound.
netListen(free) ==
  IF free THEN "nil" ELSE "listen tcp :3000: bind: address already in use"

\* Mutant: the error of the load is dropped.
loadX509KeyPairLenient(ok) == "nil"

\* tls.LoadX509KeyPair(certFile, keyFile): the error, "nil" when both files
\* were read and parsed.
loadX509KeyPair(ok) ==
  IF ok THEN "nil" ELSE "open cert.pem: no such file or directory"

\* Mutant: the listener is left as it is when ListenAndServeTLS returns.
deferredCloseLeak(ln) == ln

\* defer ln.Close() in ListenAndServeTLS: what the listener is once the
\* call has returned.
deferredClose(ln) == IF ln = "open" THEN "closed" ELSE ln

\* server.ListenAndServeTLS, first half: net.Listen("tcp", addr). On an
\* error it returns at once; otherwise the close of the listener is deferred.
Listen ==
  /\ pc = "listen"
  /\ steps' = Append(steps, "listen")
  /\ IF netListen(portFree) = "nil"
     THEN /\ listener' = "open"
          /\ pc' = "loadCert"
          /\ UNCHANGED err
     ELSE /\ err' = netListen(portFree)
          /\ pc' = "checkErr"
          /\ UNCHANGED listener
  /\ UNCHANGED <<envVars, netVars, regIdx, mux, tlsConfig, server, cert,
                 exitCode, stdout, stderr>>

\* ServeTLS: tls.LoadX509KeyPair(certFile, keyFile), then Serve. On an error
\* ListenAndServeTLS returns it, and the deferred ln.Close() runs.
LoadX509KeyPair ==
  /\ pc = "loadCert"
  /\ steps' = Append(steps, "loadCert")
  /\ IF loadX509KeyPair(certOK) = "nil"
     THEN /\ cert' = "loaded"
          /\ pc' = "serve"
          /\ UNCHANGED <<err, listener>>
     ELSE /\ err' = loadX509KeyPair(certOK)
          /\ listener' = deferredClose(listener)
          /\ pc' = "checkErr"
          /\ UNCHANGED cert
  /\ UNCHANGED <<envVars, netVars, regIdx, mux, tlsConfig, server, exitCode,
                 stdout, stderr>>

\* Mutant: the error is left out of the fatal line.
logFatalNoErr(prefix, e) == prefix

\* log.Fatal(v...): the operands printed as fmt.Sprint does (no space after
\* a string operand), then os.Exit(1).
logFatal(prefix, e) == prefix \o e

\* Mutant: the process ends with exit code 0 whatever was returned.
mainExitZero(e) == 0

\* The exit code main ends with after ListenAndServeTLS returned e.
mainExit(e) == IF e # "nil" THEN 1 ELSE 0

\* Serve's accept loop ends on an accept error that is not temporary:
\* ListenAndServeTLS returns it, the deferred ln.Close() runs, and main goes
\* on to its check of the error. Nothing main does from here on is read by
\* a connection's goroutine, so the return and the check are one step.
AcceptError ==
  /\ pc = "serve"
  /\ err' = "accept tcp [::]:3000: accept: too many open files in system"
  /\ listener' = deferredClose(listener)
  /\ stderr' = Append(stderr,
                  logFatal("[warn] Could not start the server:", err'))
  /\ exitCode' = <<mainExit(err')>>
  /\ pc' = "exited"
  /\ conns' = [c \in ConnIds |-> NoConn]
  /\ reqs' = [r \in ReqIds |-> NoReq]
  /\ UNCHANGED <<envVars, regIdx, mux, tlsConfig, server, cert,
                 stdout, steps>>

\* if err != nil { log.Fatal("Could not start the server:", err) }, and the
\* return from main after it. The exit ends every goroutine and closes every
\* connection of the process.
CheckErr ==
  /\ pc = "checkErr"
  /\ stderr' = IF err # "nil"
               THEN Append(stderr,
                      logFatal("[warn] Could not start the server:", err))
               ELSE stderr
  /\ exitCode' = <<mainExit(err)>>
  /\ pc' = "exited"
  /\ conns' = [c \in ConnIds |-> NoConn]
  /\ reqs' = [r \in ReqIds |-> NoReq]
  /\ UNCHANGED <<envVars, regIdx, mux, tlsConfig, server, listener, cert, err,
                 stdout, steps>>

----------------------------------------------------------------------------
(* The accept loop and the goroutines serving connections *)

mainVars == <<pc, regIdx, mux, tlsConfig, server, listener, cert, err, exitCode,
              stderr, steps>>

alive == pc # "exited"

inFlight(r) == reqs[r].state \notin {"none", "done"}

\* Serve: Accept returns a connection, served in a goroutine of its own.
Accept(c) ==
  /\ pc = "serve"
  /\ conns[c].state = "none"
  /\ conns' = [conns EXCEPT ![c].state = "accepted"]
  /\ UNCHANGED <<envVars, mainVars, stdout, reqs>>

\* The outcome of the TLS handshake for a ClientHello offering the versions
\* `offer` and, when clientH2, the protocol "h2".
handshake(config, offer, clientH2) ==
  LET v == mutualVersion(config, offer) IN
    IF v = 0
    THEN [state |-> "rejected", offer |-> offer, tls |-> FALSE,
          version |-> 0, proto |-> ""]
    ELSE [state |-> "established", offer |-> offer, tls |-> TRUE, version |-> v,
          proto |-> negotiatedProto(config, clientH2)]

\* The line conn.serve prints when the handshake of the connection from
\* `remote` fails: Server.logf writes to the server's ErrorLog, which main
\* leaves nil (the standard logger of package log, on standard error).
handshakeError(remote) ==
  "http: TLS handshake error from " \o remote
    \o ": tls: client offered only unsupported versions"

\* Mutant: a failed handshake ends the accept loop, Serve returns its error.
HandshakeFatal(c) ==
  /\ alive
  /\ conns[c].state = "accepted"
  /\ conns' = [conns EXCEPT ![c] =
        handshake(tlsConfig, ClientHello(c).offer, ClientHello(c).h2)]
  /\ IF conns'[c].state = "rejected"
     THEN /\ err' = "tls: client offered only unsupported versions"
          /\ listener' = deferredClose(listener)
          /\ pc' = "checkErr"
     ELSE UNCHANGED <<err, listener, pc>>
  /\ UNCHANGED <<envVars, regIdx, mux, tlsConfig, server, cert, exitCode,
                 stderr, steps, stdout, reqs>>

\* The connection's goroutine runs the handshake before it reads a request;
\* a failed handshake is logged and closes the connection, and the
\* goroutine ends.
Handshake(c) ==
  /\ alive
  /\ conns[c].state = "accepted"
  /\ conns' = [conns EXCEPT ![c] =
        handshake(tlsConfig, ClientHello(c).offer, ClientHello(c).h2)]
  /\ errorLog' = IF conns'[c].state = "rejected"
                 THEN Append(errorLog, handshakeError(c))
                 ELSE errorLog
  /\ UNCHANGED <<inputVars, mainVars, stdout, reqs>>

\* Mutant: the handlers write at once, logRequestDetails is not called.
handlerEntryUnlogged(v) == "write"

\* Where a registered handler starts: part_003's handlers call
\* logRequestDetails first, server.go's write at once.
handlerEntry(v) == IF v = "part_003" THEN "logHTTP" ELSE "write"

\* serverHandler.ServeHTTP with Handler nil: DefaultServeMux picks what
\* answers; the redirect and the not-found reply are written at once.
serveHTTP(m, v, req) ==
  LET h == muxHandler(m, req.path) IN
    CASE h.kind = "handler" ->
           [req EXCEPT !.routed = "handler", !.handler = h.body,
                       !.state = handlerEntry(v)]
      [] h.kind = "redirect" ->
           [req EXCEPT !.routed = "redirect", !.state = "done",
                       !.status = StatusMovedPermanently,
                       !.body = RedirectBody(req.method, h.to)]
      [] OTHER ->
           [req EXCEPT !.routed = "notfound", !.state = "done",
                       !.status = StatusNotFound, !.body = NotFoundBody]

\* Mutant: a request for a path without a handler gets one registered.
ReadRequestRegistering(r, c, p, m) ==
  /\ alive
  /\ conns[c].state = "established"
  /\ reqs[r].state = "none"
  /\ \A q \in ReqIds : q < r => reqs[q].state # "none"
  /\ reqs' = [reqs EXCEPT ![r] =
        serveHTTP(mux, variant,
                  [NoReq EXCEPT !.conn = c, !.path = p, !.method = m,
                                !.proto = conns[c].proto])]
  /\ mux' = IF muxConflict(mux, p) THEN mux ELSE muxHandle(mux, p, NotFoundBody)
  /\ UNCHANGED <<envVars, pc, regIdx, tlsConfig, server, listener, cert, err,
                 exitCode, stderr, steps, stdout, conns>>

\* The connection's goroutine reads a request and calls the server's
\* handler. An HTTP/1.1 connection carries one request at a time, an HTTP/2
\* connection concurrent streams.
ReadRequest(r, c, p, m) ==
  /\ alive
  /\ conns[c].state = "established"
  /\ reqs[r].state = "none"
  /\ \A q \in ReqIds : q < r => reqs[q].state # "none"
  /\ conns[c].proto = "HTTP/1.1" =>
        \A q \in ReqIds : reqs[q].conn = c => ~inFlight(q)
  /\ reqs' = [reqs EXCEPT ![r] =
        serveHTTP(mux, variant,
                  [NoReq EXCEPT !.conn = c, !.path = p, !.method = m,
                                !.proto = conns[c].proto])]
  /\ UNCHANGED <<envVars, mainVars, stdout, conns>>

\* r.Proto, the protocol version of a request: "HTTP/2.0" for a stream of
\* an HTTP/2 connection; on an HTTP/1.x connection the version the client
\* wrote in the request line, and the server answers HTTP/1.0 as well as
\* HTTP/1.1.
requestProtos(connProto) ==
  IF connProto = "HTTP/2.0" THEN {"HTTP/2.0"} ELSE {"HTTP/1.0", "HTTP/1.1"}

\* ReadRequest for a client that chooses the version of its request line.
ReadRequestLine(r, c, p, m, v) ==
  /\ alive
  /\ conns[c].state = "established"
  /\ reqs[r].state = "none"
  /\ \A q \in ReqIds : q < r => reqs[q].state # "none"
  /\ conns[c].proto = "HTTP/1.1" =>
        \A q \in ReqIds : reqs[q].conn = c => ~inFlight(q)
  /\ v \in requestProtos(conns[c].proto)
  /\ reqs' = [reqs EXCEPT ![r] =
        serveHTTP(mux, variant,
                  [NoReq EXCEPT !.conn = c, !.path = p, !.method = m,
                                !.proto = v])]
  /\ UNCHANGED <<envVars, mainVars, stdout, conns>>

\* logRequestDetails, lines 64-65
LogHTTPVersion(r) ==
  /\ alive
  /\ reqs[r].state = "logHTTP"
  /\ IF sigpipe(sink)
     THEN Killed
     ELSE /\ LET c == conns[reqs[r].conn] IN
               stdout' = println(stdout, sink,
                           logRequestDetails(r, reqs[r].proto, c.tls, c.version)[1])
          /\ reqs' = [reqs EXCEPT ![r].state = "logTLS"]
          /\ UNCHANGED <<mainVars, conns>>
  /\ UNCHANGED envVars

\* logRequestDetails, lines 67-72, and the handler's fmt.Fprintf(w, ...)
\* after it: the write touches nothing but the request's own response, so
\* it is taken in the step of the last line printed.
LogTLSStatus(r) ==
  /\ alive
  /\ reqs[r].state = "logTLS"
  /\ IF sigpipe(sink)
     THEN Killed
     ELSE /\ LET c == conns[reqs[r].conn] IN
               stdout' = println(stdout, sink,
                           logRequestDetails(r, reqs[r].proto, c.tls, c.version)[2])
          /\ LET resp == handlerWrite([status |-> reqs[r].status,
                                       body |-> reqs[r].body],
                                      reqs[r].handler) IN
               reqs' = [reqs EXCEPT ![r].status = resp.status,
                                    ![r].body = resp.body,
                                    ![r].state = "done"]
          /\ UNCHANGED <<mainVars, conns>>
  /\ UNCHANGED envVars

\* The fmt.Fprintf(w, ...) and the return of a handler that does not log
\* (server.go).
WriteBody(r) ==
  /\ alive
  /\ reqs[r].state = "write"
  /\ LET resp == handlerWrite([status |-> reqs[r].status,
                               body |-> reqs[r].body], reqs[r].handler) IN
       reqs' = [reqs EXCEPT ![r].status = resp.status, ![r].body = resp.body,
                            ![r].state = "done"]
  /\ UNCHANGED <<envVars, mainVars, stdout, conns>>

----------------------------------------------------------------------------
(* Specifications *)

Next ==
  \/ HandleFunc
  \/ NewTLSConfig
  \/ NewServer
  \/ ConfigureServer
  \/ PrintRunning
  \/ Listen
  \/ LoadX509KeyPair
  \/ AcceptError
  \/ CheckErr
  \/ \E c \in ConnIds : Accept(c)
  \/ \E c \in ConnIds : Handshake(c)
  \/ \E r \in ReqIds, c \in ConnIds, p \in Paths, m \in Methods :
        ReadRequest(r, c, p, m)
  \/ \E r \in ReqIds : LogHTTPVersion(r)
  \/ \E r \in ReqIds : LogTLSStatus(r)
  \/ \E r \in ReqIds : WriteBody(r)

\* The program as shipped.
Spec == Init /\ [][Next]_vars

\* The program as shipped, and the program with a handler registered for
\* "/orders" a second time (before or after the one for "/users").
SecondBody == "Second handler for orders"

DupScripts ==
  { << [pattern |-> OrdersPath, body |-> OrdersBody],
       [pattern |-> OrdersPath, body |-> SecondBody],
       [pattern |-> UsersPath, body |-> UsersBody] >>,
    << [pattern |-> OrdersPath, body |-> OrdersBody],
       [pattern |-> UsersPath, body |-> UsersBody],
       [pattern |-> OrdersPath, body |-> SecondBody] >> }

InitDup == InitWith({ShippedScript} \cup DupScripts, {VersionTLS12})

SpecDup == InitDup /\ [][Next]_vars

\* Startup and handshakes of a main that writes another MinVersion in its
\* tls.Config: the value below TLS 1.0 (SSL 3.0), each of the four TLS
\* versions, and the value above TLS 1.3.
PolicyMinimums == (VersionTLS10 - 1)..(VersionTLS13 + 1)

InitPolicy == InitWith({ShippedScript}, PolicyMinimums)

NextPolicy ==
  \/ HandleFunc
  \/ NewTLSConfig
  \/ NewServer
  \/ ConfigureServer
  \/ PrintRunning
  \/ Listen
  \/ LoadX509KeyPair
  \/ AcceptError
  \/ CheckErr
  \/ \E c \in ConnIds : Accept(c)
  \/ \E c \in ConnIds : Handshake(c)

SpecPolicy == InitPolicy /\ [][NextPolicy]_vars

\* The program as shipped, with a standard output that starts to fail at
\* any moment: the descriptor is closed or the disk fills up (the write
\* returns an error), or the reader of the pipe goes away (EPIPE).
SinkFails(s) ==
  /\ alive
  /\ sink = "ok"
  /\ sink' = s
  /\ UNCHANGED <<variant, script, minTLSVersion, certOK, portFree, json,
                 errorLog, mainVars, netVars, stdout>>

NextSink ==
  \/ Next
  \/ \E s \in Sinks \ {"ok"} : SinkFails(s)

SpecSink == Init /\ [][NextSink]_vars

\* The program as shipped, with clients that send HTTP/1.0 request lines as
\* well as HTTP/1.1 ones on a connection without HTTP/2, to the two
\* registered paths.
NextProto ==
  \/ HandleFunc
  \/ NewTLSConfig
  \/ NewServer
  \/ ConfigureServer
  \/ PrintRunning
  \/ Listen
  \/ LoadX509KeyPair
  \/ AcceptError
  \/ CheckErr
  \/ \E c \in ConnIds : Accept(c)
  \/ \E c \in ConnIds : Handshake(c)
  \/ \E r \in ReqIds, c \in ConnIds, p \in {OrdersPath, UsersPath},
        m \in Methods, v \in {"HTTP/1.0", "HTTP/1.1", "HTTP/2.0"} :
        ReadRequestLine(r, c, p, m, v)
  \/ \E r \in ReqIds : LogHTTPVersion(r)
  \/ \E r \in ReqIds : LogTLSStatus(r)
  \/ \E r \in ReqIds : WriteBody(r)

SpecProto == Init /\ [][NextProto]_vars

\* The server without TLS of src/demo/http-client.md (lines 48-59): the two
\* registrations, the line printed, and http.ListenAndServe(":3000", nil)
\* as the last statement of main, its result dropped.
PlainVariant == "http_client_md"

InitPlain ==
  /\ variant = PlainVariant
  /\ script = ShippedScript
  /\ minTLSVersion = 0
  /\ certOK = FALSE
  /\ portFree \in BOOLEAN
  /\ json = JSONIdle
  /\ pc = "register"
  /\ regIdx = 1
  /\ mux = << >>
  /\ tlsConfig = NoConfig
  /\ server = NoServer
  /\ listener = "none"
  /\ cert = "none"
  /\ err = "nil"
  /\ exitCode = Running
  /\ stdout = << >>
  /\ stderr = << >>
  /\ errorLog = << >>
  /\ sink = "ok"
  /\ conns = [c \in ConnIds |-> NoConn]
  /\ reqs = [r \in ReqIds |-> NoReq]
  /\ steps = << >>

\* http.ListenAndServe, first half: net.Listen("tcp", addr). On an error
\* it returns at once, otherwise it goes on to Serve.
ListenAndServe ==
  /\ pc = "listen"
  /\ variant = PlainVariant
  /\ steps' = Append(steps, "listen")
  /\ IF netListen(portFree) = "nil"
     THEN /\ listener' = "open"
          /\ pc' = "serve"
          /\ UNCHANGED err
     ELSE /\ err' = netListen(portFree)
          /\ pc' = "return"
          /\ UNCHANGED listener
  /\ UNCHANGED <<envVars, netVars, regIdx, mux, tlsConfig, server, cert,
                 exitCode, stdout, stderr>>

\* Mutant: main checks the error as part_003 does.
mainReturnChecked(e) == IF e # "nil" THEN 1 ELSE 0

\* The exit code of a main that called ListenAndServe as a statement and
\* returns: the error e is a value nobody reads.
mainReturn(e) == 0

\* main returns after ListenAndServe has: nothing is printed, the process
\* ends.
Return ==
  /\ pc = "return"
  /\ variant = PlainVariant
  /\ exitCode' = <<mainReturn(err)>>
  /\ pc' = "exited"
  /\ conns' = [c \in ConnIds |-> NoConn]
  /\ reqs' = [r \in ReqIds |-> NoReq]
  /\ UNCHANGED <<envVars, regIdx, mux, tlsConfig, server, listener, cert, err,
                 stdout, stderr, steps>>

\* Serve's accept loop ends on an accept error: ListenAndServe returns it,
\* Serve's deferred close of the listener runs, and main returns.
AcceptErrorPlain ==
  /\ pc = "serve"
  /\ variant = PlainVariant
  /\ err' = "accept tcp [::]:3000: accept: too many open files in system"
  /\ listener' = deferredClose(listener)
  /\ exitCode' = <<mainReturn(err')>>
  /\ pc' = "exited"
  /\ conns' = [c \in ConnIds |-> NoConn]
  /\ reqs' = [r \in ReqIds |-> NoReq]
  /\ UNCHANGED <<envVars, regIdx, mux, tlsConfig, server, cert, stdout,
                 stderr, steps>>

\* The goroutine of a connection of the server without TLS: there is no
\* handshake, requests are read from the socket as HTTP/1.x.
ServeConn(c) ==
  /\ alive
  /\ variant = PlainVariant
  /\ conns[c].state = "accepted"
  /\ conns' = [conns EXCEPT ![c] =
        [state |-> "established", offer |-> {}, tls |-> FALSE, version |-> 0,
         proto |-> "HTTP/1.1"]]
  /\ UNCHANGED <<envVars, mainVars, stdout, reqs>>

NextPlain ==
  \/ HandleFunc
  \/ PrintRunning
  \/ ListenAndServe
  \/ Return
  \/ AcceptErrorPlain
  \/ \E c \in ConnIds : Accept(c)
  \/ \E c \in ConnIds : ServeConn(c)
  \/ \E r \in ReqIds, c \in ConnIds, p \in Paths, m \in Methods :
        ReadRequest(r, c, p, m)
  \/ \E r \in ReqIds : WriteBody(r)

SpecPlain == InitPlain /\ [][NextPlain]_vars

\* logRequestDetails and getTLSVersionName as functions of their argument:
\* a handler of part_003 is entered with a request whose Proto is one of the
\* protocols net/http serves, whose TLS is nil or set, and whose
\* TLS.Version is any uint16.
VersionCodes == 0..(2^16 - 1)

Protos == {"HTTP/1.0", "HTTP/1.1", "HTTP/2.0"}

ArgConn(proto, hasTLS, version) ==
  [state |-> "established", offer |-> {}, tls |-> hasTLS,
   version |-> version, proto |-> proto]

ArgReq(c, p, proto) ==
  [state |-> "logHTTP", conn |-> c, path |-> p, method |-> "GET",
   proto |-> proto, status |-> 0, body |-> "", routed |-> "handler",
   handler |-> IF p = OrdersPath THEN OrdersBody ELSE UsersBody]

InitLogger ==
  /\ variant = "part_003"
  /\ script = ShippedScript
  /\ minTLSVersion = VersionTLS12
  /\ json = JSONIdle
  /\ certOK = TRUE
  /\ portFree = TRUE
  /\ pc = "serve"
  /\ regIdx = Len(ShippedScript) + 1
  /\ mux = muxHandle(muxHandle(<< >>, OrdersPath, OrdersBody),
                     UsersPath, UsersBody)
  /\ tlsConfig = [MinVersion |-> VersionTLS12,
                  NextProtos |-> {"h2", "http/1.1"}, built |-> TRUE]
  /\ server = [Addr |-> ":" \o ToString(PORT), Handler |-> "nil",
               built |-> TRUE]
  /\ listener = "open"
  /\ cert = "loaded"
  /\ err = "nil"
  /\ exitCode = Running
  /\ stdout = << >>
  /\ stderr = << >>
  /\ errorLog = << >>
  /\ sink = "ok"
  /\ steps = <<"register", "register", "policy", "listen", "loadCert">>
  /\ \E proto \in Protos, hasTLS \in BOOLEAN, version \in VersionCodes :
       /\ ~hasTLS => version = 0
       /\ conns = [c \in ConnIds |->
                     IF c = "modern" THEN ArgConn(proto, hasTLS, version)
                     ELSE NoConn]
       /\ reqs = [r \in ReqIds |->
                    IF r = 1 THEN ArgReq("modern", OrdersPath, proto)
                    ELSE NoReq]

NextLogger ==
  \/ \E r \in ReqIds : LogHTTPVersion(r)
  \/ \E r \in ReqIds : LogTLSStatus(r)

SpecLogger == InitLogger /\ [][NextLogger]_vars

\* part_000's main, for every User of the bounded strings and, as the text
\* given to the Decoder, the shipped literal, the bytes Marshal makes of the
\* user and the bytes Encode makes of it. The server is not started.
JSONTexts(u) == {ShippedText, marshal(u), encode(u)}

InitJSON ==
  /\ ServerStart({ShippedScript}, {VersionTLS12})
  /\ variant = "part_003"
  /\ certOK
  /\ portFree
  /\ \E u \in Users : \E text \in JSONTexts(u) : json = JSONStart(u, text)

serverVars == <<variant, script, minTLSVersion, certOK, portFree, sink,
                errorLog, mainVars, netVars, stdout>>

\* log.Fatal("ERR:", err) in part_000
JSONFatal(j, e) == [j EXCEPT !.pc = "fatal", !.err = e]

\* jsonData, err := json.Marshal(user), and the two fmt.Println after it
\* (lines 25-30). Marshal of a struct of strings returns no error.
Marshal ==
  /\ json.pc = "marshal"
  /\ json' = [json EXCEPT !.pc = "unmarshal",
                          !.jsonData = marshal(json.user),
                          !.printed = @ \o <<json.user, marshal(json.user)>>]
  /\ UNCHANGED serverVars

\* err = json.Unmarshal(jsonData, &user1) into the zero User, lines 33-38
Unmarshal ==
  /\ json.pc = "unmarshal"
  /\ LET res == unmarshal(json.jsonData, ZeroUser) IN
       json' = IF res.err # "nil" THEN JSONFatal(json, res.err)
               ELSE [json EXCEPT !.pc = "decode", !.user1 = res.val,
                                 !.printed = Append(@, res.val)]
  /\ UNCHANGED serverVars

\* json.NewDecoder(strings.NewReader(jsonData1)).Decode(&user2), lines 41-49
Decode ==
  /\ json.pc = "decode"
  /\ LET res == decode(json.jsonData1, ZeroUser) IN
       json' = IF res.err # "nil" THEN JSONFatal(json, res.err)
               ELSE [json EXCEPT !.pc = "encode", !.user2 = res.val,
                                 !.printed = Append(@, res.val)]
  /\ UNCHANGED serverVars

\* json.NewEncoder(&buff).Encode(user), lines 52-59, and the end of main
Encode ==
  /\ json.pc = "encode"
  /\ json' = [json EXCEPT !.pc = "done", !.buff = encode(json.user),
                          !.printed = Append(@, encode(json.user))]
  /\ UNCHANGED serverVars

NextJSON ==
  \/ Marshal
  \/ Unmarshal
  \/ Decode
  \/ Encode

SpecJSON == InitJSON /\ [][NextJSON]_vars

----------------------------------------------------------------------------
(* Vocabulary of the properties *)

Registered == {OrdersPath, UsersPath}

FixedBody(p) ==
  IF p = OrdersPath THEN "Handling incoming orders..[ok]"
  ELSE "Handling users..[ok]"

Seen(r) == reqs[r].state # "none"

Done(r) == reqs[r].state = "done"

\* The positions of the lines in stdout that request r's handler printed.
LinesOf(r) == {i \in 1..Len(stdout) : stdout[i].req = r}

\* A path net/http takes as written: no "." or ".." segment, and no empty
\* segment except a last one (the trailing slash).
IsClean(p) ==
  \A i \in 1..Len(p) :
    /\ p[i] \notin {".", ".."}
    /\ p[i] = "" => (i = Len(p) /\ i > 1)

HandshakeDone(c) == conns[c].state \in {"established", "rejected"}

\* The versions of an offer that the shipped minimum (TLS 1.2) admits.
Admitted(offer) == {v \in offer : v >= 771}

Count(seq, x) == Cardinality({i \in 1..Len(seq) : seq[i] = x})

----------------------------------------------------------------------------
(* C1 *)

----------------------------------------------------------------------------
(* C2 *)

\* C2 as stated: a request for a path that is not registered is answered 404
\* and reaches no registered handler.
C2_Unregistered404 ==
  \A r \in ReqIds :
    (Seen(r) /\ reqs[r].path \notin Registered) =>
      /\ reqs[r].status = 404
      /\ reqs[r].routed # "handler"

\* C2, amended: a request for a path that is not registered reaches no
\* registered handler (nothing is logged or written by one); it is answered
\* 404 with the not-found body when the path is clean, and with a 301
\* redirect when it is not.
C2_UnregisteredNeverHandled ==
  \A r \in ReqIds :
    (Seen(r) /\ reqs[r].path \notin Registered) =>
      /\ Done(r)
      /\ reqs[r].routed # "handler"
      /\ LinesOf(r) = {}
      /\ reqs[r].body \notin {FixedBody(OrdersPath), FixedBody(UsersPath)}
      /\ IF IsClean(reqs[r].path)
         THEN reqs[r].status = 404 /\ reqs[r].body = "404 page not found\n"
         ELSE reqs[r].status = 301

C2_Witness ==
  \E r, q \in ReqIds :
    /\ Done(r) /\ reqs[r].path = <<"nope">> /\ reqs[r].status = 404
    /\ Done(q) /\ reqs[q].path = <<"", "orders">> /\ reqs[q].status = 301

----------------------------------------------------------------------------
(* C3 *)

\* C3: a connection whose client offers only versions below TLS 1.2 ends
\* its handshake rejected, and no request, handler write or log line ever
\* belongs to it.
C3_BelowMinimumNeverHandled ==
  \A c \in ConnIds :
    (HandshakeDone(c) /\ Admitted(conns[c].offer) = {}) =>
      /\ conns[c].state = "rejected"
      /\ \A r \in ReqIds : Seen(r) => reqs[r].conn # c

C3_Witness ==
  \E c, d \in ConnIds :
    /\ conns[c].state = "rejected"
    /\ conns[c].offer = {769, 770}
    /\ conns[d].state = "established"
    /\ \E r \in ReqIds : Done(r) /\ reqs[r].conn = d

----------------------------------------------------------------------------
(* C4 *)

TLSName(v) == IF v = 771 THEN "TLS 1.2" ELSE IF v = 772 THEN "TLS 1.3" ELSE "?"

----------------------------------------------------------------------------
(* C5 *)

\* C5: two answered requests for the same registered path carry the same
\* status and byte-identical bodies, whatever was requested before or
\* between them, by either method and on whichever connection.
C5_Idempotent ==
  \A r, q \in ReqIds :
    (Done(r) /\ Done(q) /\ reqs[r].path = reqs[q].path
       /\ reqs[r].path \in Registered) =>
      /\ reqs[r].body = reqs[q].body
      /\ reqs[r].status = reqs[q].status

C5_Witness ==
  \E r, q \in ReqIds :
    /\ r < q
    /\ Done(r) /\ Done(q)
    /\ reqs[r].path = OrdersPath /\ reqs[q].path = OrdersPath
    /\ reqs[r].method = reqs[q].method
    /\ reqs[q].body = "Handling incoming orders..[ok]"

----------------------------------------------------------------------------
(* C6 *)

NoTraffic ==
  /\ \A c \in ConnIds : conns[c].state = "none"
  /\ \A r \in ReqIds : ~Seen(r)

----------------------------------------------------------------------------
(* C7 *)

\* The registration that would win under last-writer-wins among those
\* attempted so far for pattern p (the panicking one included).
Attempted ==
  {i \in 1..Len(script) :
     i < regIdx \/ (i = regIdx /\ pc = "exited" /\ exitCode = <<2>>)}

LastAttempt(p) == Max({i \in Attempted : script[i].pattern = p})

FirstOf(p) ==
  CHOOSE i \in 1..Len(script) :
    /\ script[i].pattern = p
    /\ \A j \in 1..(i - 1) : script[j].pattern # p

HasDuplicate ==
  \E i, j \in 1..Len(script) : i < j /\ script[i].pattern = script[j].pattern

----------------------------------------------------------------------------
(* C8 *)

BindFailed == err = "listen tcp :3000: bind: address already in use"

LoadFailed == err = "open cert.pem: no such file or directory"

\* C8: the bind and the certificate load are each attempted at most once;
\* after either fails nothing is served, the listener is not open, and the
\* process ends with exit code 1 having logged exactly the one line that
\* carries the error.
C8_StartupFailureFatal ==
  /\ Count(steps, "listen") <= 1
  /\ Count(steps, "loadCert") <= 1
  /\ ~portFree /\ Count(steps, "listen") = 1 => BindFailed
  /\ portFree /\ ~certOK /\ Count(steps, "loadCert") = 1 => LoadFailed
  /\ (BindFailed \/ LoadFailed) =>
       /\ NoTraffic
       /\ listener # "open"
       /\ pc \in {"checkErr", "exited"}
       /\ pc = "exited" =>
            /\ exitCode = <<1>>
            /\ stderr =
                 << IF BindFailed
                    THEN "[warn] Could not start the server:listen tcp :3000: bind: address already in use"
                    ELSE "[warn] Could not start the server:open cert.pem: no such file or directory" >>

C8_Witness ==
  /\ ~portFree
  /\ BindFailed
  /\ pc = "exited"
  /\ exitCode = <<1>>
  /\ Len(stderr) = 1

----------------------------------------------------------------------------
(* C9 *)

\* C9: the process never ends with exit code 0: whenever it has ended, the
\* exit code is 1 and the fatal line was logged; and the accept loop is left
\* only by an error of Accept, which ListenAndServeTLS returns.
C9_NeverExitsZero ==
  /\ [](exitCode # <<0>>)
  /\ [](pc = "exited" =>
          /\ exitCode = <<1>>
          /\ err # "nil"
          /\ stderr = <<"[warn] Could not start the server:" \o err>>)
  /\ [](pc # "exited" => exitCode = << >>)
  /\ [][(pc = "serve" /\ pc' # "serve") =>
          (pc' = "exited" /\ err' # "nil" /\ listener' = "closed")]_vars

C9_Witness ==
  /\ pc = "exited"
  /\ exitCode = <<1>>
  /\ cert = "loaded"
  /\ \E i \in 1..Len(stdout) : stdout[i].kind = "tls"

----------------------------------------------------------------------------
(* C10 *)

StatedRank(step) ==
  CASE step = "loadCert" -> 1
    [] step = "policy" -> 2
    [] step = "register" -> 3
    [] step = "listen" -> 4

CodeRank(step) ==
  CASE step = "register" -> 1
    [] step = "policy" -> 2
    [] step = "listen" -> 3
    [] step = "loadCert" -> 4

----------------------------------------------------------------------------
(* C11 *)

\* C11: no terminal state holds an open listening socket: once the process
\* has ended, the listener is closed if the bind had succeeded and was never
\* opened otherwise, on the exit after a failed bind, after a failed
\* certificate load and after a failed Accept alike.
C11_NoOpenSocketAtExit ==
  pc = "exited" =>
    /\ listener # "open"
    /\ (Count(steps, "listen") = 1 /\ portFree) => listener = "closed"
    /\ ~portFree => listener = "none"

C11_Witness ==
  /\ pc = "exited"
  /\ portFree /\ certOK
  /\ listener = "closed"
  /\ err = "accept tcp [::]:3000: accept: too many open files in system"

----------------------------------------------------------------------------
(* C12 *)

\* The lines logRequestDetails has printed for request r.
HTTPLinesOf(r) == {i \in LinesOf(r) : stdout[i].kind = "http"}

StatusLinesOf(r) == {i \in LinesOf(r) : stdout[i].kind \in {"tls", "notls"}}

\* C12: a request that reached a registered handler has at most one run of
\* logRequestDetails (one HTTP line, one TLS-status line), and whenever a
\* byte of the handler's body is written that run is complete: no handler
\* answers without the logger having run.
C12_LoggedOnceBeforeBody ==
  \A r \in ReqIds :
    reqs[r].routed = "handler" =>
      /\ Cardinality(HTTPLinesOf(r)) <= 1
      /\ Cardinality(StatusLinesOf(r)) <= 1
      /\ reqs[r].body # "" =>
           /\ Cardinality(HTTPLinesOf(r)) = 1
           /\ Cardinality(StatusLinesOf(r)) = 1

----------------------------------------------------------------------------
(* C13 *)

\* C13: a call of logRequestDetails that has returned has written exactly
\* one TLS-status line, after its HTTP line: the line with a version name
\* when the request carries TLS state, the "without TLS" notice when it
\* does not, never both and never neither; before that it has written none.
C13_OneTLSStatusLine ==
  \A r \in ReqIds :
    reqs[r].routed = "handler" =>
      LET c == conns[reqs[r].conn]
          status == StatusLinesOf(r)
      IN /\ ~Done(r) => status = {}
         /\ Done(r) =>
              /\ Cardinality(status) = 1
              /\ \A i \in status :
                   /\ \E j \in HTTPLinesOf(r) : j < i
                   /\ c.tls =>
                        /\ stdout[i].kind = "tls"
                        /\ SubSeq(stdout[i].text, 1, 42) =
                             "[tick] Received request with TLS version: "
                   /\ ~c.tls =>
                        /\ stdout[i].kind = "notls"
                        /\ stdout[i].text =
                             "[tick] Received request without TLS"

C13_Witness ==
  /\ Done(1)
  /\ ~conns[reqs[1].conn].tls
  /\ Len(stdout) = 2
  /\ stdout[2].text = "[tick] Received request without TLS"

----------------------------------------------------------------------------
(* C14 *)

\* C14: a failure of the log sink never affects request handling: whatever
\* the sink does, a request a handler answered has status 200 and its fixed
\* body, and a handler that was entered goes on to answer: it is given up
\* only as it is when logging succeeds, by the fatal exit after
\* ListenAndServeTLS returned.
C14_SinkFailureSwallowed ==
  /\ [](\A r \in ReqIds :
          (reqs[r].routed = "handler" /\ Done(r)) =>
            /\ reqs[r].status = 200
            /\ reqs[r].body = FixedBody(reqs[r].path))
  /\ [][\A r \in ReqIds :
          (reqs[r].routed = "handler" /\ ~Done(r)) =>
            \/ reqs'[r].routed = "handler"
            \/ exitCode' = <<1>>]_vars

----------------------------------------------------------------------------
(* C15 *)

\* The diagnostic lines of the log: all but the line printed at startup.
Diagnostics == {i \in 1..Len(stdout) : stdout[i].kind # "running"}

Accepted == {c \in ConnIds : conns[c].state # "none"}

\* The requests whose handler has printed its first line, and its second.
PastHTTPLine ==
  {r \in ReqIds : /\ variant = "part_003"
                  /\ reqs[r].routed = "handler"
                  /\ reqs[r].state \in {"logTLS", "done"}}

PastStatusLine ==
  {r \in ReqIds : /\ variant = "part_003"
                  /\ reqs[r].routed = "handler"
                  /\ reqs[r].state = "done"}

\* C15 as stated: the number of diagnostic lines in the log equals the
\* number of accepted connections.
C15_OneLinePerConnection ==
  alive => Cardinality(Diagnostics) = Cardinality(Accepted)

\* C15, amended: while the process lives and standard output takes the
\* writes, the log holds two diagnostic lines for every request a handler of
\* part_003 has answered, first the line with the HTTP version and then the
\* line with the TLS version, one for a request between the two, and no
\* other: none for a connection as such, for a rejected handshake or for a
\* request no handler was found for.
C15_TwoLinesPerHandledRequest ==
  (alive /\ sink = "ok") =>
    /\ Cardinality(Diagnostics) =
         Cardinality(PastHTTPLine) + Cardinality(PastStatusLine)
    /\ \A i \in Diagnostics :
         /\ stdout[i].req \in PastHTTPLine
         /\ stdout[i].kind = "tls" =>
              \E j \in 1..(i - 1) :
                stdout[j].req = stdout[i].req /\ stdout[j].kind = "http"
    /\ \A r \in PastStatusLine :
         /\ Cardinality(HTTPLinesOf(r)) = 1
         /\ Cardinality(StatusLinesOf(r)) = 1

C15_Witness ==
  /\ alive
  /\ Cardinality(Accepted) = 1
  /\ \A r \in ReqIds : Done(r) /\ reqs[r].routed = "handler"
  /\ Cardinality(Diagnostics) = 2 * MaxReqs

----------------------------------------------------------------------------
(* C16 *)

RunningLines == {i \in 1..Len(stdout) : stdout[i].kind = "running"}

\* C16: when startup has failed (the bind or the certificate load), exactly
\* one line was emitted in all, the fatal line naming the failed stage, and
\* the "server is running" line was not; when startup has succeeded, the
\* "server is running" line was emitted exactly once, before every
\* diagnostic line of a request.
C16_StartupOutput ==
  /\ (pc = "exited" /\ (BindFailed \/ LoadFailed)) =>
       /\ RunningLines = {}
       /\ Len(stdout) + Len(stderr) = 1
       /\ BindFailed =>
            stderr = <<"[warn] Could not start the server:listen tcp :3000: bind: address already in use">>
       /\ LoadFailed =>
            stderr = <<"[warn] Could not start the server:open cert.pem: no such file or directory">>
  /\ pc = "serve" =>
       /\ Cardinality(RunningLines) = 1
       /\ \A i \in Diagnostics : \E j \in RunningLines : j < i

----------------------------------------------------------------------------
(* C17 *)

----------------------------------------------------------------------------
(* C18 *)

ValidUTF8(s) == \A i \in 1..Len(s) : s[i] # "xFF"

\* s with every byte that is not valid UTF-8 replaced by U+FFFD.
Coerced(s) == [i \in 1..Len(s) |-> IF s[i] = "xFF" THEN "uFFFD" ELSE s[i]]

PastUnmarshal == json.pc \in {"decode", "encode", "done"}

PastDecode == json.pc \in {"encode", "done"}

----------------------------------------------------------------------------
(* C19 *)

\* C19: once the socket is bound the route table holds the two registered
\* paths with their handlers and the policy the minimum TLS 1.2, and no step
\* taken from then on (a handshake, rejected or not, a request answered by a
\* handler, by 404 or by a redirect, the exit) changes the table, the
\* policy or the server value.
C19_ReadOnlyAfterStartup ==
  /\ [](listener # "none" =>
          /\ DOMAIN mux = Registered
          /\ \A p \in Registered : mux[p] = FixedBody(p)
          /\ tlsConfig.MinVersion = 771)
  /\ [][listener # "none" =>
          /\ mux' = mux
          /\ tlsConfig' = tlsConfig
          /\ server' = server]_vars

C19_Witness ==
  /\ pc = "serve"
  /\ \E c \in ConnIds : conns[c].state = "rejected"
  /\ \E r \in ReqIds : Done(r) /\ reqs[r].routed = "notfound"
  /\ \E r \in ReqIds : Done(r) /\ reqs[r].routed = "handler"
  /\ DOMAIN mux = {OrdersPath, UsersPath}

----------------------------------------------------------------------------
(* C20 *)

\* The name the claim gives a version code.
StatedName(v) ==
  IF v = 769 THEN "TLS 1.0"
  ELSE IF v = 770 THEN "TLS 1.1"
  ELSE IF v = 771 THEN "TLS 1.2"
  ELSE IF v = 772 THEN "TLS 1.3"
  ELSE "Unknown TLS version!"

\* C20: for every uint16 version code, the name getTLSVersionName returns
\* (the one logRequestDetails prints for a request with TLS state) is
\* "TLS 1.0", "TLS 1.1", "TLS 1.2", "TLS 1.3" for the codes of those
\* versions and "Unknown TLS version!" for every other code.
C20_VersionNameTotal ==
  \A r \in ReqIds :
    (Done(r) /\ conns[reqs[r].conn].tls) =>
      /\ conns[reqs[r].conn].version \in 0..65535
      /\ \E i \in StatusLinesOf(r) :
           stdout[i].text = "[tick] Received request with TLS version: "
                              \o StatedName(conns[reqs[r].conn].version)

C20_Witness ==
  /\ Done(1)
  /\ conns[reqs[1].conn].tls
  /\ conns[reqs[1].conn].version = 65535
  /\ stdout[2].text =
       "[tick] Received request with TLS version: Unknown TLS version!"

----------------------------------------------------------------------------
(* C21 *)

Rejected == {c \in ConnIds : conns[c].state = "rejected"}

\* A request slot of the model is free.
FreeSlot == \E r \in ReqIds : reqs[r].state = "none"

\* C21: the step in which a handshake fails changes that connection and
\* adds one line to the server's error log, and nothing else: main stays in
\* Serve with no error and no exit code, the listener stays open, standard
\* output and the fatal log are untouched, and no request and no other
\* connection changes. From then on, while the process lives, every client
\* not yet connected can still be accepted, every accepted connection runs
\* its handshake, one that offers TLS 1.2 or higher ends it established, and
\* an established connection with no request in flight has its next
\* request read.
C21_RejectionStaysInConnection ==
  /\ [][\A c \in ConnIds :
          (conns[c].state = "accepted" /\ conns'[c].state = "rejected") =>
            /\ pc = "serve" /\ pc' = "serve"
            /\ err' = "nil"
            /\ exitCode' = Running
            /\ listener' = "open"
            /\ stdout' = stdout
            /\ stderr' = stderr
            /\ errorLog' = Append(errorLog, handshakeError(c))
            /\ reqs' = reqs
            /\ \A d \in ConnIds \ {c} : conns'[d] = conns[d]]_vars
  /\ []((alive /\ Rejected # {}) =>
          \A d \in ConnIds :
            /\ conns[d].state = "none" => ENABLED Accept(d)
            /\ conns[d].state = "accepted" => ENABLED Handshake(d)
            /\ (HandshakeDone(d) /\ Admitted(conns[d].offer) # {}) =>
                 conns[d].state = "established"
            /\ ( /\ conns[d].state = "established"
                 /\ FreeSlot
                 /\ \A q \in ReqIds : reqs[q].conn = d => Done(q) ) =>
                 ENABLED (\E r \in ReqIds, p \in Paths, m \in Methods :
                            ReadRequest(r, d, p, m)))

C21_Witness ==
  /\ alive
  /\ conns["legacy"].state = "rejected"
  /\ errorLog = <<handshakeError("legacy")>>
  /\ conns["forced12"].state = "established"
  /\ \E r \in ReqIds :
       /\ Done(r)
       /\ reqs[r].conn = "forced12"
       /\ reqs[r].status = StatusOK
  /\ conns["modern"].state = "none"

----------------------------------------------------------------------------
(* C22 *)

\* The steps of the goroutine that handles request r.
HandlerStep(r) == LogHTTPVersion(r) \/ LogTLSStatus(r) \/ WriteBody(r)

\* C22: while the process lives, a step that changes one request changes no
\* other; the step in which a handler finishes leaves status 200 and
\* the fixed body of the request's own path, whatever requests are in flight
\* beside it; and a request in a handler can always take its next step, it
\* waits for no other request.
C22_ResponsesIndependent ==
  /\ [][\A r \in ReqIds :
          /\ (alive' /\ reqs'[r] # reqs[r]) =>
               \A q \in ReqIds \ {r} : reqs'[q] = reqs[q]
          /\ (inFlight(r) /\ reqs'[r].state = "done") =>
               /\ reqs'[r].path = reqs[r].path
               /\ reqs'[r].status = StatusOK
               /\ reqs'[r].body = FixedBody(reqs[r].path)]_vars
  /\ [](\A r \in ReqIds : (alive /\ inFlight(r)) => ENABLED HandlerStep(r))

C22_Witness ==
  \E r, q \in ReqIds :
    /\ inFlight(r) /\ reqs[r].path = OrdersPath
    /\ Done(q) /\ reqs[q].path = UsersPath
    /\ reqs[q].status = StatusOK
    /\ reqs[q].body = FixedBody(UsersPath)
    /\ q > r

----------------------------------------------------------------------------
(* C23 *)

HTTPLine(proto) == "[tick] Received request with HTTP version: " \o proto

\* The lines of the log that name an HTTP version.
HTTPLines == {i \in 1..Len(stdout) : stdout[i].kind = "http"}

----------------------------------------------------------------------------
(* C24 *)

\* C24: the line with the TLS status of a request stands in the log right
\* after the line with the HTTP version of the same request: the HTTP line
\* comes first and no line of another request stands between the two.
C24_LinesAdjacent ==
  \A j \in Diagnostics :
    stdout[j].kind \in {"tls", "notls"} =>
      /\ j > 1
      /\ stdout[j - 1].kind = "http"
      /\ stdout[j - 1].req = stdout[j].req

----------------------------------------------------------------------------
(* C25 *)

TLSLine(name) == "[tick] Received request with TLS version: " \o name

\* C25: on the shipped server no "without TLS" line is ever in the log and
\* every TLS line names "TLS 1.2" or "TLS 1.3"; no connection is established
\* without TLS or on another version, so no request ever enters
\* logRequestDetails with one.
C25_OnlyTLS12Or13Logged ==
  /\ \A i \in 1..Len(stdout) :
       /\ stdout[i].kind # "notls"
       /\ stdout[i].text # "[tick] Received request without TLS"
       /\ stdout[i].kind = "tls" =>
            stdout[i].text \in {TLSLine("TLS 1.2"), TLSLine("TLS 1.3")}
  /\ \A c \in ConnIds :
       conns[c].state = "established" =>
         conns[c].tls /\ conns[c].version \in {VersionTLS12, VersionTLS13}
  /\ \A r \in ReqIds :
       Seen(r) => conns[reqs[r].conn].state = "established"

C25_Witness ==
  /\ conns["legacy"].state = "rejected"
  /\ \E i, j \in 1..Len(stdout) :
       /\ i < j
       /\ {stdout[i].text, stdout[j].text} =
            {TLSLine("TLS 1.2"), TLSLine("TLS 1.3")}

----------------------------------------------------------------------------
(* C26 *)

RunningLine == "[green] Server is running on PORT: 3000"

====
